---- MODULE Spec2Model ----
(***************************************************************************)
(* Model of src/app.js: an Express application that keeps a list of users  *)
(* in memory and serves it through GET /, GET /index, GET /data,           *)
(* GET /data/:id, POST /data, DELETE /user/:user_id and                    *)
(* PUT /users/:user_id.                                                    *)
(*                                                                         *)
(* Every request is handled to completion before the next one starts, so   *)
(* one action is one whole handler.  The state is the users array and the  *)
(* last request with the response it got.                                  *)
(*                                                                         *)
(* JSON values are modelled as [t, v]: t is the JavaScript type of the     *)
(* value (typeof, with "null" and "undefined" kept apart) and v its        *)
(* literal text.  A key that a body does not have reads as undefined, as   *)
(* it does in JavaScript; JSON cannot carry undefined, so a body key is    *)
(* present exactly when its value is not undefined.                        *)
(***************************************************************************)
EXTENDS Integers, Sequences, FiniteSets, TLC

VARIABLES users, req, resp

vars == <<users, req, resp>>

(* Largest number of records the model lets the users array grow to. *)
MaxUsers == 3

----------------------------------------------------------------------------
(* JavaScript values *)

Str(s) == [t |-> "string", v |-> s]
Num(n) == [t |-> "number", v |-> n]      \* n is the decimal text of the number
Arr(s) == [t |-> "object", v |-> s]      \* the JSON array [s]
undefined == [t |-> "undefined", v |-> ""]

(* !x is false: x is none of undefined, null, "", 0, false *)
Truthy(x) ==
    /\ x.t \notin {"undefined", "null"}
    /\ ~(x.t = "string" /\ x.v = "")
    /\ ~(x.t = "number" /\ x.v = "0")
    /\ ~(x.t = "boolean" /\ x.v = "false")

(* a === b where a is a value stored in users and b a value of the request *)
(* being handled: primitives compare by type and value; an object parsed   *)
(* from the request body is a new object, identical to no stored one.      *)
StrictEq(a, b) == a.t = b.t /\ a.v = b.v /\ a.t # "object"

----------------------------------------------------------------------------
(* Requests and their bodies *)

BodyKeys == {"id", "Firstname", "Surname", "extra"}

EmptyBody == [k \in BodyKeys |-> undefined]

(* Object.keys(body) *)
ObjectKeys(body) == {k \in BodyKeys : body[k].t # "undefined"}

JSON == "application/json"
TextPlain == "text/plain"

ContentTypes == {JSON, TextPlain}

(* app.use(express.json()): the body is parsed when the Content-Type       *)
(* header says application/json; otherwise req.body is left as the empty   *)
(* object (the body-parser of Express 4).                                  *)
ExpressJson(ctype, raw) ==
    IF ctype = JSON THEN raw ELSE EmptyBody

(* req.headers['content-type'] !== 'application/json' *)
NotJsonHeader(ctype) == ctype # JSON

IdValues == {undefined, Str("1"), Str("3"), Arr("3")}
FirstnameValues == {undefined, Str("Maria"), Num("7")}
SurnameValues == {Str("Virtanen")}
ExtraValues == {undefined, Str("x")}

PostBodies ==
    {[id |-> i, Firstname |-> f, Surname |-> s, extra |-> e] :
        i \in IdValues, f \in FirstnameValues, s \in SurnameValues,
        e \in ExtraValues}

PutBodies ==
    {[id |-> i, Firstname |-> f, Surname |-> s, extra |-> undefined] :
        i \in {undefined, Str("1")}, f \in {undefined, Str("Maria")},
        s \in SurnameValues}

(* the :id and :user_id path parameters are always strings *)
PathIds == {"1", "2", "3"}

Request(route, param, ctype, raw) ==
    [route |-> route, param |-> param, ctype |-> ctype, raw |-> raw]

----------------------------------------------------------------------------
(* Responses *)

User(id, fn, sn) == [id |-> id, Firstname |-> fn, Surname |-> sn]

(* res.status(s).json({error: text}) *)
ErrorJson(s, text) == [status |-> s, kind |-> "error", text |-> text, body |-> <<>>]
(* res.status(s).json(user) *)
UserJson(s, u) == [status |-> s, kind |-> "user", text |-> "", body |-> <<u>>]

MsgUnsupported == "Unsupported Media Type. Content-Type must be application/json"
MsgPostMissing == "Missing required fields: id, Firstname, Surname"
MsgPostOnly == "Only id, Firstname, and Surname are allowed in the request body"
MsgPostExists == "User with this ID already exists"
MsgPutMissing == "Missing required fields: Firstname, Surname"
MsgGetNotFound == "User not found"
MsgDeleteNotFound == "user not found"

----------------------------------------------------------------------------
(* Array helpers *)

(* users.findIndex(u => u.id === userId): first index, 0 when there is none *)
FindIndex(us, userId) ==
    LET hits == {i \in DOMAIN us : StrictEq(us[i].id, Str(userId))}
    IN IF hits = {} THEN 0 ELSE CHOOSE i \in hits : \A j \in hits : i <= j

(* Splice with the index ignored: users.shift() *)
Splice_Shift(us, index) ==
    [i \in 1..(Len(us) - 1) |-> us[i + 1]]

(* users.splice(index, 1) *)
Splice(us, index) ==
    [i \in 1..(Len(us) - 1) |-> IF i < index THEN us[i] ELSE us[i + 1]]

(* users.some(user => user.id === id) *)
SomeId(us, id) == \E i \in DOMAIN us : StrictEq(us[i].id, id)

----------------------------------------------------------------------------
(* Handlers: each gives the users array and the response after the request *)

Result(us, r) == [users |-> us, resp |-> r]

GetHomeHandler(us) ==
    Result(us, [status |-> 200, kind |-> "home", text |-> "Home page", body |-> <<>>])

GetIndexHandler(us) ==
    Result(us, [status |-> 200, kind |-> "hello", text |-> "Hello World!", body |-> <<>>])

GetDataHandler(us) ==
    Result(us, [status |-> 200, kind |-> "list", text |-> "", body |-> us])

GetDataIdHandler(us, userId) ==
    LET index == FindIndex(us, userId)
    IN IF index # 0
       THEN Result(us, UserJson(200, us[index]))
       ELSE Result(us, ErrorJson(404, MsgGetNotFound))

PostMissing(body) ==
    ~Truthy(body.id) \/ ~Truthy(body.Firstname) \/ ~Truthy(body.Surname)

(* PostKeyCount that only rejects bodies with fewer than three keys *)
PostKeyCount_FewerOnly(body) == Cardinality(ObjectKeys(body)) < 3

PostKeyCount(body) == Cardinality(ObjectKeys(body)) # 3

(* PostDataHandler with users.unshift(newUser) in place of users.push *)
PostDataHandler_Unshift(us, ctype, raw) ==
    LET body == ExpressJson(ctype, raw)
        newUser == User(body.id, body.Firstname, body.Surname)
    IN IF NotJsonHeader(ctype) THEN Result(us, ErrorJson(415, MsgUnsupported))
       ELSE IF PostMissing(body) THEN Result(us, ErrorJson(400, MsgPostMissing))
       ELSE IF Cardinality(ObjectKeys(body)) # 3 THEN Result(us, ErrorJson(400, MsgPostOnly))
       ELSE IF SomeId(us, body.id) THEN Result(us, ErrorJson(400, MsgPostExists))
       ELSE Result(<<newUser>> \o us, UserJson(201, newUser))

PostDataHandler(us, ctype, raw) ==
    LET body == ExpressJson(ctype, raw)
        newUser == User(body.id, body.Firstname, body.Surname)
    IN IF NotJsonHeader(ctype) THEN Result(us, ErrorJson(415, MsgUnsupported))
       ELSE IF PostMissing(body) THEN Result(us, ErrorJson(400, MsgPostMissing))
       ELSE IF PostKeyCount(body) THEN Result(us, ErrorJson(400, MsgPostOnly))
       ELSE IF SomeId(us, body.id) THEN Result(us, ErrorJson(400, MsgPostExists))
       ELSE Result(Append(us, newUser), UserJson(201, newUser))

(* DeleteUserHandler without the return of the 404 branch: the handler     *)
(* goes on to users.splice(-1, 1), which removes the last record           *)
DeleteUserHandler_NoReturn(us, userId) ==
    LET index == FindIndex(us, userId)
    IN IF index = 0
       THEN Result(SubSeq(us, 1, Len(us) - 1), ErrorJson(404, MsgDeleteNotFound))
       ELSE Result(Splice(us, index),
                   [status |-> 204, kind |-> "empty", text |-> "", body |-> <<>>])

DeleteUserHandler(us, userId) ==
    LET index == FindIndex(us, userId)
    IN IF index = 0
       THEN Result(us, ErrorJson(404, MsgDeleteNotFound))
       ELSE Result(Splice(us, index),
                   [status |-> 204, kind |-> "empty", text |-> "", body |-> <<>>])

PutMissing(body) == ~Truthy(body.Firstname) \/ ~Truthy(body.Surname)

(* PutUserHandler that takes the id of the record from the body when the   *)
(* body has one                                                            *)
PutUserHandler_BodyId(us, userId, ctype, raw) ==
    LET body == ExpressJson(ctype, raw)
        existingUserIndex == FindIndex(us, userId)
        newId == IF Truthy(body.id) THEN body.id ELSE Str(userId)
        newUser == User(newId, body.Firstname, body.Surname)
    IN IF NotJsonHeader(ctype) THEN Result(us, ErrorJson(415, MsgUnsupported))
       ELSE IF ~Truthy(body.Firstname) \/ ~Truthy(body.Surname)
       THEN Result(us, ErrorJson(400, MsgPutMissing))
       ELSE IF existingUserIndex # 0
       THEN Result([us EXCEPT ![existingUserIndex] = newUser], UserJson(200, newUser))
       ELSE Result(Append(us, newUser), UserJson(201, newUser))

PutUserHandler(us, userId, ctype, raw) ==
    LET body == ExpressJson(ctype, raw)
        existingUserIndex == FindIndex(us, userId)
        newUser == User(Str(userId), body.Firstname, body.Surname)
    IN IF NotJsonHeader(ctype) THEN Result(us, ErrorJson(415, MsgUnsupported))
       ELSE IF PutMissing(body) THEN Result(us, ErrorJson(400, MsgPutMissing))
       ELSE IF existingUserIndex # 0
       THEN Result([us EXCEPT ![existingUserIndex] = newUser], UserJson(200, newUser))
       ELSE Result(Append(us, newUser), UserJson(201, newUser))

----------------------------------------------------------------------------
(* State machine *)

SeedUsers ==
    << User(Str("1"), Str("Jyri"), Str("Kemppainen")),
       User(Str("2"), Str("Petri"), Str("Laitinen")) >>

Init ==
    /\ users = SeedUsers
    /\ req = Request("listen", "", "", EmptyBody)
    /\ resp = [status |-> 0, kind |-> "empty", text |-> "", body |-> <<>>]

(* one request handled to completion; the model stops the array growing   *)
(* past MaxUsers                                                          *)
Handle(r, out) ==
    /\ Len(out.users) <= MaxUsers
    /\ users' = out.users
    /\ req' = r
    /\ resp' = out.resp

GetHome == Handle(Request("GET /", "", "", EmptyBody), GetHomeHandler(users))

GetIndex == Handle(Request("GET /index", "", "", EmptyBody), GetIndexHandler(users))

GetData == Handle(Request("GET /data", "", "", EmptyBody), GetDataHandler(users))

GetDataId ==
    \E id \in PathIds :
        Handle(Request("GET /data/:id", id, "", EmptyBody), GetDataIdHandler(users, id))

PostData ==
    \E ctype \in ContentTypes, raw \in PostBodies :
        Handle(Request("POST /data", "", ctype, raw), PostDataHandler(users, ctype, raw))

DeleteUser ==
    \E id \in PathIds :
        Handle(Request("DELETE /user/:user_id", id, "", EmptyBody),
               DeleteUserHandler(users, id))

PutUser ==
    \E id \in PathIds, ctype \in ContentTypes, raw \in PutBodies :
        Handle(Request("PUT /users/:user_id", id, ctype, raw),
               PutUserHandler(users, id, ctype, raw))

Next ==
    \/ GetHome
    \/ GetIndex
    \/ GetData
    \/ GetDataId
    \/ PostData
    \/ DeleteUser
    \/ PutUser

Spec == Init /\ [][Next]_vars

----------------------------------------------------------------------------
(* Vocabulary of the properties *)

PostRoute == "POST /data"
PutRoute == "PUT /users/:user_id"
DeleteRoute == "DELETE /user/:user_id"
GetRoutes == {"GET /", "GET /index", "GET /data", "GET /data/:id"}

(* the text that addresses an id in a URL: String(id) *)
PathOf(x) == x.v

(* some record of us carries the id value x (same JSON value) *)
HasId(us, x) == \E i \in DOMAIN us : us[i].id = x

(* us without its k-th record *)
RemoveAt(us, k) == SubSeq(us, 1, k - 1) \o SubSeq(us, k + 1, Len(us))

Ids(us) == [i \in DOMAIN us |-> us[i].id]

(* what GET /data/{p} answers in the registry us *)
GetAnswer(us, p) == GetDataIdHandler(us, p).resp

(* a key the body sent does not have *)
Absent(raw, k) == raw[k] = undefined

----------------------------------------------------------------------------
(* C1: in every reachable state the users list holds at most one record    *)
(* per id value.                                                           *)
C1_AtMostOneRecordPerId ==
    \A i, j \in DOMAIN users : users[i].id = users[j].id => i = j

(* C2: a PUT that passes validation answers 201 and creates a record that  *)
(* GET /data/{id} returns when no record has the id, answers 200 and       *)
(* replaces the name fields at the same position when one has; the id of   *)
(* the response and of the stored record is the path parameter, never the  *)
(* id of the body; PUT never answers 404.                                  *)
C2_PutStep ==
    LET id == Str(req'.param)
        raw == req'.raw
        rec == User(id, raw.Firstname, raw.Surname)
    IN /\ resp'.status # 404
       /\ (req'.ctype = JSON /\ ~Absent(raw, "Firstname") /\ ~Absent(raw, "Surname")) =>
            /\ resp' = UserJson(resp'.status, rec)
            /\ HasId(users, id) =>
                 /\ resp'.status = 200
                 /\ Len(users') = Len(users)
                 /\ \A i \in DOMAIN users :
                      users'[i] = IF users[i].id = id THEN rec ELSE users[i]
            /\ ~HasId(users, id) =>
                 /\ resp'.status = 201
                 /\ HasId(users', id)
                 /\ GetAnswer(users', req'.param) = UserJson(200, rec)

C2_PutUpserts == [][req'.route = PutRoute => C2_PutStep]_vars

C2_Witness ==
    /\ req.route = PutRoute
    /\ resp.status = 201
    /\ req.raw.id = Str("1")
    /\ req.param = "3"
    /\ HasId(users, Str("3"))
    /\ GetAnswer(users, "3").status = 200

(* C3: a POST /data whose id equals the id of a record already in the      *)
(* registry always yields 400 and leaves the registry exactly as it was.   *)
(* The id is the one the handler reads from the parsed body.               *)
C3_DuplicatePostRejected ==
    [][(req'.route = PostRoute /\ HasId(users, ExpressJson(req'.ctype, req'.raw).id))
         => (resp'.status = 400 /\ users' = users)]_vars

(* C4: for every id carried by some record GET /data/{id} answers 200 with *)
(* exactly that record, and for every id carried by no record it answers   *)
(* 404.                                                                    *)
C4_GetFindsEveryRecord ==
    /\ \A i \in DOMAIN users :
         GetAnswer(users, PathOf(users[i].id)) = UserJson(200, users[i])
    /\ \A p \in PathIds :
         (\A i \in DOMAIN users : PathOf(users[i].id) # p)
            => GetAnswer(users, p).status = 404

(* C5: DELETE on an id present in the registry answers 204 and removes     *)
(* exactly that one record, after which GET /data/{id} answers 404 until a *)
(* POST or PUT recreates the id; DELETE on an absent id answers 404 and    *)
(* removes nothing.                                                        *)
C5_DeleteStep ==
    LET id == Str(req'.param)
    IN /\ HasId(users, id) =>
            /\ resp'.status = 204
            /\ \E k \in DOMAIN users : users[k].id = id /\ users' = RemoveAt(users, k)
            /\ ~HasId(users', id)
            /\ GetAnswer(users', req'.param).status = 404
       /\ ~HasId(users, id) =>
            /\ resp'.status = 404
            /\ users' = users

C5_StaysDeleted ==
    (users' # users /\ ~(req'.route \in {PostRoute, PutRoute} /\ resp'.status = 201))
        => \A p \in PathIds :
              GetAnswer(users, p).status = 404 => GetAnswer(users', p).status = 404

C6_PostStep ==
    LET raw == req'.raw
    IN IF req'.ctype # JSON
       THEN resp' = ErrorJson(415, MsgUnsupported)
       ELSE IF Absent(raw, "id") \/ Absent(raw, "Firstname") \/ Absent(raw, "Surname")
       THEN resp' = ErrorJson(400, MsgPostMissing)
       ELSE IF \E k \in BodyKeys \ {"id", "Firstname", "Surname"} : ~Absent(raw, k)
       THEN resp' = ErrorJson(400, MsgPostOnly)
       ELSE HasId(users, raw.id) => resp' = ErrorJson(400, MsgPostExists)

C6_PutStep ==
    LET raw == req'.raw
    IN IF req'.ctype # JSON
       THEN resp' = ErrorJson(415, MsgUnsupported)
       ELSE (Absent(raw, "Firstname") \/ Absent(raw, "Surname"))
               => resp' = ErrorJson(400, MsgPutMissing)

C6_ValidationOrder ==
    [][/\ req'.route = PostRoute => C6_PostStep
       /\ req'.route = PutRoute => C6_PutStep]_vars

(* C7: POST /data with a body that contains a key beyond id, Firstname and *)
(* Surname always yields 400, whatever the rest of the request, and no     *)
(* record is added.                                                        *)
C7_ExtraKeyAlways400 ==
    [][(req'.route = PostRoute /\ ~Absent(req'.raw, "extra"))
         => (resp'.status = 400 /\ users' = users)]_vars

(* C7 as amended: such a POST yields 400 when the Content-Type header is   *)
(* application/json and 415 otherwise, and in both cases no record is      *)
(* added.                                                                  *)
C7_ExtraKeyRejected ==
    [][(req'.route = PostRoute /\ ~Absent(req'.raw, "extra"))
         => /\ resp'.status = IF req'.ctype = JSON THEN 400 ELSE 415
            /\ resp'.kind = "error"
            /\ users' = users]_vars

C7_Witness ==
    /\ req.route = PostRoute
    /\ req.ctype = JSON
    /\ ~Absent(req.raw, "extra")
    /\ req.raw.id = Str("3") /\ req.raw.Firstname = Str("Maria")
    /\ req.raw.Surname = Str("Virtanen")
    /\ resp = ErrorJson(400, MsgPostOnly)
    /\ ~HasId(users, Str("3"))

(* C8: GET /data returns all records in insertion order: a 201 places the  *)
(* new record after every existing record, a PUT 200 leaves every position *)
(* unchanged, a DELETE leaves the relative order of the remaining records  *)
(* unchanged; from the seed state a successful POST of id "3" makes        *)
(* GET /data return ids 1, 2, 3 in that order.                             *)
C8_Step ==
    /\ resp'.status = 201 => (resp'.kind = "user" /\ users' = Append(users, resp'.body[1]))
    /\ (req'.route = PutRoute /\ resp'.status = 200) => Ids(users') = Ids(users)
    /\ resp'.status = 204 => \E k \in DOMAIN users : users' = RemoveAt(users, k)
    /\ req'.route = "GET /data" => (resp'.status = 200 /\ resp'.body = users)
    /\ GetDataHandler(users').resp.body = users'
    /\ (users = SeedUsers /\ req'.route = PostRoute /\ resp'.status = 201
          /\ req'.raw.id = Str("3"))
         => Ids(GetDataHandler(users').resp.body) = <<Str("1"), Str("2"), Str("3")>>

C8_InsertionOrder == [][C8_Step]_vars

C8_Witness ==
    /\ req.route = PostRoute
    /\ resp.status = 201
    /\ req.raw.id = Str("3")
    /\ Ids(users) = <<Str("1"), Str("2"), Str("3")>>
    /\ users[1] = SeedUsers[1] /\ users[2] = SeedUsers[2]

(* C9: each stored record has exactly the fields id, Firstname and         *)
(* Surname, its id is a string, and its Firstname and Surname are          *)
(* non-empty strings.                                                      *)
C9_RecordShape ==
    \A i \in DOMAIN users :
        /\ DOMAIN users[i] = {"id", "Firstname", "Surname"}
        /\ users[i].id.t = "string"
        /\ users[i].Firstname.t = "string" /\ users[i].Firstname.v # ""
        /\ users[i].Surname.t = "string" /\ users[i].Surname.v # ""

(* C10: every request answered with 415, 400 or 404 and every GET leaves   *)
(* the registry unchanged; the registry length changes only by +1 on a 201 *)
(* and by -1 on a 204, and stays the same on a PUT 200.                    *)
C10_Step ==
    /\ resp'.status \in {400, 404, 415} => users' = users
    /\ req'.route \in GetRoutes => users' = users
    /\ resp'.status = 201 => Len(users') = Len(users) + 1
    /\ resp'.status = 204 => Len(users') = Len(users) - 1
    /\ (req'.route = PutRoute /\ resp'.status = 200) => Len(users') = Len(users)
    /\ Len(users') # Len(users) => resp'.status \in {201, 204}

C10_Frame == [][C10_Step]_vars

C10_Witness ==
    /\ req.route = PostRoute
    /\ resp = ErrorJson(400, MsgPostExists)
    /\ req.raw.id = Str("1")
    /\ HasId(users, Str("1"))
====
